---- MODULE Spec2Model ----
(***************************************************************************)
(* A model of pymbolic/geometric_algebra.py: Space, the blade sign         *)
(* utilities, the blade product weights and MultiVector.                   *)
(*                                                                         *)
(* A multivector is a record [space, data]: space is the identity of its   *)
(* Space (an index into the sequence of Space instances created so far),   *)
(* data the Python dict from blade bitmask to coefficient, as a function   *)
(* on a finite set of naturals.  Coefficients are integers.                *)
(***************************************************************************)
EXTENDS Integers, Sequences, FiniteSets, TLC

VARIABLES
    spaces,   \* the Space instances created so far; identity = position
    acc,      \* the MultiVector the session holds (NoMV: none yet)
    last,     \* what the last call did: operation, outcome, returned value
    cache,    \* get_euclidean_space's memo dict: dimension count -> Space identity
    pc,       \* per thread: where it is inside get_euclidean_space
    ret,      \* per thread: the Space identity its call computed / returned
    tin,      \* input of a bits_and_sign run: the tuple, its coefficient
    tout      \* results of a bits_and_sign run

vars == <<spaces, acc, last, cache, pc, ret, tin, tout>>

----------------------------------------------------------------------------
(* Bounds of the model.                                                    *)

\* Largest sum of |coefficient| a multivector held in acc may have.
MaxWeight == 2
\* The same for a multivector of a 3-dimensional Space.
MaxWeight3 == 1
\* Largest dimension count of the tuples fed to bits_and_sign.
MaxTupleDim == 3
\* Number of threads racing in get_euclidean_space.
NumThreads == 3
\* Number of basis vectors of the blades fed to canonical_reordering_sign.
MaxCrsDim == 3

----------------------------------------------------------------------------
(* Python's integer operators on non-negative integers.                    *)

RECURSIVE BitAnd(_, _)
BitAnd(a, b) ==
    IF a = 0 \/ b = 0 THEN 0
    ELSE (a % 2) * (b % 2) + 2 * BitAnd(a \div 2, b \div 2)

RECURSIVE BitXor(_, _)
BitXor(a, b) ==
    IF a = 0 THEN b
    ELSE IF b = 0 THEN a
    ELSE ((a + b) % 2) + 2 * BitXor(a \div 2, b \div 2)

RECURSIVE BitOr(_, _)
BitOr(a, b) ==
    IF a = 0 THEN b
    ELSE IF b = 0 THEN a
    ELSE (IF a % 2 = 1 \/ b % 2 = 1 THEN 1 ELSE 0) + 2 * BitOr(a \div 2, b \div 2)

RECURSIVE Pow2(_)
Pow2(i) == IF i = 0 THEN 1 ELSE 2 * Pow2(i - 1)

Abs(x) == IF x < 0 THEN -x ELSE x

\* pymbolic.primitives.is_zero on an integer coefficient.
is_zero(x) == x = 0

----------------------------------------------------------------------------
(* Python dicts with integer keys.                                         *)

EmptyDict == [b \in {} |-> 0]

DictGet(d, k, dflt) == IF k \in DOMAIN d THEN d[k] ELSE dflt

DictSet(d, k, v) == [b \in (DOMAIN d) \cup {k} |-> IF b = k THEN v ELSE d[b]]

DictDel(d, k) == [b \in (DOMAIN d) \ {k} |-> d[b]]

\* The order in which the model iterates over a dict's keys: ascending.
RECURSIVE SortedSeq(_)
SortedSeq(S) ==
    IF S = {} THEN << >>
    ELSE LET m == CHOOSE x \in S : \A y \in S : x <= y
         IN  <<m>> \o SortedSeq(S \ {m})

----------------------------------------------------------------------------
(* helpers: permutation_sign, bit_count, canonical_reordering_sign         *)

\* The inner while loop of permutation_sign: the first position j >= i
\* (0-based) with p[j] = i.
RECURSIVE perm_find(_, _, _)
perm_find(p, j, i) == IF p[j + 1] = i THEN j ELSE perm_find(p, j + 1, i)

\* The for loop of permutation_sign from position i on, with sign s so far.
RECURSIVE perm_loop(_, _, _)
perm_loop(p, i, s) ==
    IF i >= Len(p) THEN s
    ELSE LET j == perm_find(p, i, i)
         IN  IF j # i
             THEN perm_loop([p EXCEPT ![i + 1] = p[j + 1], ![j + 1] = p[i + 1]],
                            i + 1, -s)
             ELSE perm_loop(p, i + 1, s)

\* permutation_sign flipping the sign at every position, swap or not.
RECURSIVE perm_loop_flip_always(_, _, _)
perm_loop_flip_always(p, i, s) ==
    IF i >= Len(p) THEN s
    ELSE LET j == perm_find(p, i, i)
         IN  perm_loop_flip_always(
                 [p EXCEPT ![i + 1] = p[j + 1], ![j + 1] = p[i + 1]], i + 1, -s)

permutation_sign_flip_always(p) == perm_loop_flip_always(p, 0, 1)

permutation_sign(p) == perm_loop(p, 0, 1)

RECURSIVE bit_count(_)
bit_count(i) == IF i = 0 THEN 0 ELSE 1 + bit_count(BitAnd(i, i - 1))

\* The while loop of canonical_reordering_sign.
RECURSIVE crs_loop(_, _, _)
crs_loop(a_bits, b_bits, s) ==
    IF a_bits = 0 THEN s
    ELSE crs_loop(a_bits \div 2, b_bits, s + bit_count(BitAnd(a_bits, b_bits)))

\* canonical_reordering_sign without the initial shift of a_bits.
crs_unshifted(a_bits, b_bits) ==
    LET s == crs_loop(a_bits, b_bits, 0)
    IN  IF BitAnd(s, 1) # 0 THEN -1 ELSE 1

canonical_reordering_sign(a_bits, b_bits) ==
    LET s == crs_loop(a_bits \div 2, b_bits, 0)
    IN  IF BitAnd(s, 1) # 0 THEN -1 ELSE 1

----------------------------------------------------------------------------
(* Space                                                                   *)

\* np.eye(n): the n x n identity matrix, as a sequence of rows.
Eye(n) == [i \in 1..n |-> [j \in 1..n |-> IF i = j THEN 1 ELSE 0]]

\* metric_matrix.shape of a matrix given as a sequence of equally long rows.
Shape(m) == <<Len(m), IF Len(m) = 0 THEN 0 ELSE Len(m[1])>>

NoBasis == [some |-> FALSE, n |-> 0]
Basis(n) == [some |-> TRUE, n |-> n]
NoMetric == [some |-> FALSE, m |-> << >>]
Metric(m) == [some |-> TRUE, m |-> m]

NoSpace == [dims |-> 0, metric |-> << >>]

\* Space.__init__(basis, metric_matrix) with basis None or an integer.
SpaceInit(basis, metric_matrix) ==
    IF ~basis.some /\ ~metric_matrix.some
    THEN [status |-> "TypeError", space |-> NoSpace]
    ELSE LET n == IF basis.some THEN basis.n ELSE Shape(metric_matrix.m)[1]
             mm == IF metric_matrix.some THEN metric_matrix.m ELSE Eye(n)
         IN  IF Shape(mm) = <<n, n>>
             THEN [status |-> "ok", space |-> [dims |-> n, metric |-> mm]]
             ELSE [status |-> "ValueError", space |-> NoSpace]

\* The sorted (bindex, num) pairs of bits_and_sign, as the list of their num
\* (0-based positions in basis_indices), smallest bindex first.
RECURSIVE blade_permutation(_, _)
blade_permutation(basis_indices, left) ==
    IF left = {} THEN << >>
    ELSE LET num == CHOOSE k \in left :
                        \A l \in left : basis_indices[k] <= basis_indices[l]
         IN  <<num - 1>> \o blade_permutation(basis_indices, left \ {num})

RECURSIVE bits_loop(_, _, _)
bits_loop(basis_indices, k, bits) ==
    IF k > Len(basis_indices) THEN bits
    ELSE bits_loop(basis_indices, k + 1, BitOr(bits, Pow2(basis_indices[k])))

\* Space.bits_and_sign(basis_indices); the assert rejects repeated indices.
bits_and_sign(basis_indices) ==
    IF Cardinality({basis_indices[k] : k \in 1..Len(basis_indices)})
           # Len(basis_indices)
    THEN [status |-> "AssertionError", bits |-> 0, sign |-> 0]
    ELSE [status |-> "ok",
          bits |-> bits_loop(basis_indices, 1, 0),
          sign |-> permutation_sign(
                       blade_permutation(basis_indices, 1..Len(basis_indices)))]

\* Space.is_orthogonal: metric_matrix - diag(diag(metric_matrix)) == 0 everywhere.
is_orthogonal(space) ==
    \A i \in 1..space.dims : \A j \in 1..space.dims :
        (space.metric[i][j] - (IF i = j THEN space.metric[i][i] ELSE 0)) = 0

\* Space.is_euclidean reads self.mmat, an attribute no Space has.
is_euclidean(space) == [status |-> "AttributeError", value |-> FALSE]

----------------------------------------------------------------------------
(* blade product weights                                                   *)

RECURSIVE smc_loop(_, _, _, _)
smc_loop(shared_bits, basis_idx, result, space) ==
    IF shared_bits = 0 THEN result
    ELSE LET bit == Pow2(basis_idx)
         IN  IF BitAnd(shared_bits, bit) # 0
             THEN smc_loop(BitXor(shared_bits, bit), basis_idx + 1,
                           result * space.metric[basis_idx + 1][basis_idx + 1],
                           space)
             ELSE smc_loop(shared_bits, basis_idx + 1, result, space)

shared_metric_coeff(shared_bits, space) == smc_loop(shared_bits, 0, 1, space)

ProductClasses ==
    {"outer", "geometric", "inner", "lcontract", "rcontract", "scalar"}

Weight(w) == [status |-> "ok", w |-> w]

\* product_class.generic_blade_product_weight(a_bits, b_bits, space)
generic_blade_product_weight(product_class, a_bits, b_bits, space) ==
    IF product_class = "outer"
    THEN Weight(IF BitAnd(a_bits, b_bits) = 0 THEN 1 ELSE 0)
    ELSE [status |-> "NotImplementedError", w |-> 0]

\* product_class.orthogonal_blade_product_weight(a_bits, b_bits, space)
orthogonal_blade_product_weight(product_class, a_bits, b_bits, space) ==
    LET shared_bits == BitAnd(a_bits, b_bits)
    IN  CASE product_class = "outer" ->
                 Weight(IF BitAnd(a_bits, b_bits) = 0 THEN 1 ELSE 0)
          [] product_class = "geometric" ->
                 Weight(IF shared_bits # 0
                        THEN shared_metric_coeff(shared_bits, space) ELSE 1)
          [] product_class = "inner" ->
                 Weight(IF shared_bits = a_bits \/ shared_bits = b_bits
                        THEN shared_metric_coeff(shared_bits, space) ELSE 0)
          [] product_class = "lcontract" ->
                 Weight(IF shared_bits = b_bits
                        THEN shared_metric_coeff(shared_bits, space) ELSE 0)
          [] product_class = "rcontract" ->
                 Weight(IF shared_bits = a_bits
                        THEN shared_metric_coeff(shared_bits, space) ELSE 0)
          [] product_class = "scalar" ->
                 Weight(IF a_bits = b_bits
                        THEN shared_metric_coeff(a_bits, space) ELSE 0)

----------------------------------------------------------------------------
(* MultiVector: construction                                               *)

NoMV == [space |-> 0, data |-> EmptyDict]

MV(space, data) == [space |-> space, data |-> data]

Ok(mv) == [status |-> "ok", mv |-> mv]
Fail(status) == [status |-> status, mv |-> NoMV]

\* The four kinds of `data` MultiVector.__init__ takes: a numpy vector, a dict
\* keyed by blade bitmasks, a dict keyed by tuples of basis indices (as the
\* sequence of its items in iteration order), anything else (a scalar).
VectorData(vec) == [kind |-> "vector", vec |-> vec, map |-> EmptyDict, pairs |-> << >>, c |-> 0]
BitsData(map) == [kind |-> "bits", vec |-> << >>, map |-> map, pairs |-> << >>, c |-> 0]
TupleData(pairs) == [kind |-> "tuples", vec |-> << >>, map |-> EmptyDict, pairs |-> pairs, c |-> 0]
ScalarData(c) == [kind |-> "scalar", vec |-> << >>, map |-> EmptyDict, pairs |-> << >>, c |-> c]

\* The normalization loop of __init__ over the items of a tuple-keyed dict.
RECURSIVE normalize_loop(_, _, _)
normalize_loop(pairs, k, new_data) ==
    IF k > Len(pairs) THEN [status |-> "ok", data |-> new_data]
    ELSE LET bs == bits_and_sign(pairs[k].t)
             new_coeff == DictGet(new_data, bs.bits, 0) + bs.sign * pairs[k].c
         IN  IF bs.status # "ok"
             THEN [status |-> bs.status, data |-> EmptyDict]
             ELSE normalize_loop(pairs, k + 1,
                      IF is_zero(new_coeff)
                      THEN DictDel(new_data, bs.bits)
                      ELSE DictSet(new_data, bs.bits, new_coeff))

\* MultiVector.__init__(data, space) with a Space given.
MVInit(data, space, spcs) ==
    IF data.kind = "vector" /\ spcs[space].dims # Len(data.vec)
    THEN Fail("ValueError")
    ELSE LET pairs == IF data.kind = "vector"
                      THEN [i \in 1..Len(data.vec) |->
                               [t |-> <<i - 1>>, c |-> data.vec[i]]]
                      ELSE data.pairs
         IN  CASE data.kind \in {"vector", "tuples"} /\ Len(pairs) > 0 ->
                      LET n == normalize_loop(pairs, 1, EmptyDict)
                      IN  IF n.status = "ok" THEN Ok(MV(space, n.data))
                          ELSE Fail(n.status)
               [] data.kind \in {"vector", "tuples"} /\ Len(pairs) = 0 ->
                      Ok(MV(space, EmptyDict))
               [] data.kind = "bits" -> Ok(MV(space, data.map))
               [] data.kind = "scalar" -> Ok(MV(space, [b \in {0} |-> data.c]))

\* The right operand of a binary operator: a MultiVector or a bare scalar.
MVOperand(mv) == [isMV |-> TRUE, mv |-> mv, c |-> 0]
ScalarOperand(c) == [isMV |-> FALSE, mv |-> NoMV, c |-> c]

\* if not isinstance(other, MultiVector): other = MultiVector(other, self.space)
Coerce(other, space, spcs) ==
    IF other.isMV THEN other.mv ELSE MVInit(ScalarData(other.c), space, spcs).mv

----------------------------------------------------------------------------
(* MultiVector: additive operators                                         *)

\* MultiVector.__neg__
Neg(self) == MV(self.space, [b \in DOMAIN self.data |-> -self.data[b]])

\* The not-identical-spaces test of __add__.
add_spaces_differ(self, other) == self.space # other.space

\* __add__ keeping the blades whose coefficients sum to zero.
AddMV_keeps_zero_sums(self, other) ==
    IF self.space # other.space THEN Fail("ValueError")
    ELSE Ok(MV(self.space,
               [bits \in (DOMAIN self.data) \cup (DOMAIN other.data) |->
                   DictGet(self.data, bits, 0) + DictGet(other.data, bits, 0)]))

\* MultiVector.__add__ on two MultiVectors.
AddMV(self, other) ==
    IF add_spaces_differ(self, other) THEN Fail("ValueError")
    ELSE LET all_bits == (DOMAIN self.data) \cup (DOMAIN other.data)
             new_coeff(bits) ==
                 DictGet(self.data, bits, 0) + DictGet(other.data, bits, 0)
         IN  Ok(MV(self.space,
                   [bits \in {b \in all_bits : ~is_zero(new_coeff(b))} |->
                       new_coeff(bits)]))

\* MultiVector.__add__(other)
Add(self, other, spcs) == AddMV(self, Coerce(other, self.space, spcs))

\* MultiVector.__sub__(other): self + (-other); a bare scalar is negated as such.
Sub(self, other, spcs) ==
    Add(self,
        IF other.isMV THEN MVOperand(Neg(other.mv)) ELSE ScalarOperand(-other.c),
        spcs)

----------------------------------------------------------------------------
(* MultiVector: products                                                   *)

\* _generic_product without its test of the two spaces.
spaces_never_differ(self, other) == FALSE

\* The not-identical-spaces test of _generic_product.
product_spaces_differ(self, other) == self.space # other.space

\* The blade pairs (sbits, obits) in the order of the two nested for loops.
BladePairs(sdata, odata) ==
    LET ss == SortedSeq(DOMAIN sdata)
        os == SortedSeq(DOMAIN odata)
    IN  [k \in 1..(Len(ss) * Len(os)) |->
            <<ss[((k - 1) \div Len(os)) + 1], os[((k - 1) % Len(os)) + 1]>>]

\* bpw taken from the orthogonal weights whatever the metric.
bpw_always_orthogonal(orthogonal, product_class, a_bits, b_bits, space) ==
    orthogonal_blade_product_weight(product_class, a_bits, b_bits, space)

\* bpw as _generic_product selects it.
bpw(orthogonal, product_class, a_bits, b_bits, space) ==
    IF orthogonal
    THEN orthogonal_blade_product_weight(product_class, a_bits, b_bits, space)
    ELSE generic_blade_product_weight(product_class, a_bits, b_bits, space)

\* The body of the nested for loops of _generic_product, from pair k on.
RECURSIVE product_loop(_, _, _, _, _, _, _, _)
product_loop(sdata, odata, pairs, k, new_data, orthogonal, product_class, space) ==
    IF k > Len(pairs) THEN [status |-> "ok", data |-> new_data]
    ELSE LET sbits == pairs[k][1]
             obits == pairs[k][2]
             new_bits == BitXor(sbits, obits)
             weight == bpw(orthogonal, product_class, sbits, obits, space)
             coeff == weight.w * canonical_reordering_sign(sbits, obits)
                          * sdata[sbits] * odata[obits]
             new_coeff == DictGet(new_data, new_bits, 0) + coeff
         IN  IF weight.status # "ok"
             THEN [status |-> weight.status, data |-> EmptyDict]
             ELSE product_loop(sdata, odata, pairs, k + 1,
                      IF is_zero(weight.w) THEN new_data
                      ELSE IF is_zero(new_coeff) THEN DictDel(new_data, new_bits)
                      ELSE DictSet(new_data, new_bits, new_coeff),
                      orthogonal, product_class, space)

\* MultiVector._generic_product(other, product_class)
generic_product(self, other, product_class, spcs) ==
    LET space == spcs[self.space]
        orthogonal == is_orthogonal(space)
    IN  IF product_spaces_differ(self, other) THEN Fail("ValueError")
        ELSE LET r == product_loop(self.data, other.data,
                                   BladePairs(self.data, other.data), 1,
                                   EmptyDict, orthogonal, product_class, space)
             IN  IF r.status = "ok" THEN Ok(MV(self.space, r.data))
                 ELSE Fail(r.status)

\* __mul__, __xor__, __or__, __lshift__, __rshift__: coerce, then _generic_product.
Product(self, other, product_class, spcs) ==
    generic_product(self, Coerce(other, self.space, spcs), product_class, spcs)

Value(v) == [status |-> "ok", value |-> v]
Raise(status) == [status |-> status, value |-> 0]

\* MultiVector.as_scalar
as_scalar(self) ==
    IF \E bits \in DOMAIN self.data : bits # 0 THEN Raise("ValueError")
    ELSE Value(IF 0 \in DOMAIN self.data THEN self.data[0] ELSE 0)

\* scalar_product handing _InnerProduct to _generic_product.
scalar_product_as_inner(self, other, spcs) ==
    LET p == Product(self, other, "inner", spcs)
    IN  IF p.status = "ok" THEN as_scalar(p.mv) ELSE Raise(p.status)

\* MultiVector.scalar_product(other)
scalar_product(self, other, spcs) ==
    LET p == Product(self, other, "scalar", spcs)
    IN  IF p.status = "ok" THEN as_scalar(p.mv) ELSE Raise(p.status)

----------------------------------------------------------------------------
(* MultiVector: grade operations and comparisons                           *)

\* rev with the test of invol: every odd grade flipped.
rev_flips_as_invol(grade) == grade % 2 # 0

\* Whether rev flips the sign of a blade of this grade.
rev_flips(grade) == ((grade * (grade - 1)) \div 2) % 2 # 0

\* MultiVector.rev
rev(self) ==
    MV(self.space,
       [bits \in DOMAIN self.data |->
           IF rev_flips(bit_count(bits)) THEN -self.data[bits] ELSE self.data[bits]])

\* MultiVector.invol
invol(self) ==
    MV(self.space,
       [bits \in DOMAIN self.data |->
           IF bit_count(bits) % 2 = 0 THEN self.data[bits] ELSE -self.data[bits]])

\* MultiVector.norm_squared
norm_squared(self, spcs) == scalar_product(rev(self), MVOperand(self), spcs)

\* MultiVector.I
PseudoScalar(self, spcs) ==
    MV(self.space, [b \in {Pow2(spcs[self.space].dims) - 1} |-> 1])

\* MultiVector.project(grade)
project(self, grade) ==
    MV(self.space,
       [bits \in {b \in DOMAIN self.data : bit_count(b) = grade} |-> self.data[bits]])

\* MultiVector.__eq__(other)
Eq(self, other, spcs) == self.data = Coerce(other, self.space, spcs).data

\* MultiVector.zap_near_zeros with the default tolerance: an integer
\* coefficient has abs(coeff) > 1e-13 exactly when it is not 0.
zap_near_zeros(self) ==
    MV(self.space,
       [bits \in {b \in DOMAIN self.data : Abs(self.data[b]) > 0} |-> self.data[bits]])

\* MultiVector.close_to(other): not (self-other).zap_near_zeros()
close_to(self, other, spcs) ==
    LET d == Sub(self, other, spcs)
    IN  IF d.status = "ok"
        THEN [status |-> "ok", value |-> 0,
              truth |-> zap_near_zeros(d.mv).data = EmptyDict]
        ELSE [status |-> d.status, value |-> 0, truth |-> FALSE]

----------------------------------------------------------------------------
(* The session: two Space instances, the MultiVector held, the calls made. *)

UnitCoeffs == {-1, 0, 1}

DiagMetric == << <<-1, 0>>, <<0, 2>> >>
NonDiagMetric == << <<1, 1>>, <<1, 1>> >>

\* Arguments of Space(...): the default Euclidean spaces of 2 and 3
\* dimensions, a diagonal and a non-diagonal metric, and two calls that fail.
SpaceArgs ==
    { [basis |-> Basis(2), metric |-> NoMetric],
      [basis |-> Basis(3), metric |-> NoMetric],
      [basis |-> NoBasis,  metric |-> Metric(DiagMetric)],
      [basis |-> Basis(2), metric |-> Metric(NonDiagMetric)],
      [basis |-> Basis(3), metric |-> Metric(DiagMetric)],
      [basis |-> NoBasis,  metric |-> NoMetric] }

\* The Spaces those calls construct.
BuiltSpaces ==
    { SpaceInit(a.basis, a.metric).space :
        a \in {x \in SpaceArgs : SpaceInit(x.basis, x.metric).status = "ok"} }

SpaceIds == 1..Len(spaces)

Blades(space) == 0..(Pow2(space.dims) - 1)

\* The tuples of distinct basis indices of a dims-dimensional Space.
Tuples(dims) ==
    { t \in UNION { [1..n -> 0..(dims - 1)] : n \in 0..dims } :
        \A i \in 1..Len(t) : \A j \in 1..Len(t) : i # j => t[i] # t[j] }

\* What MultiVector(data, space) is called with: scalars, vectors (one of a
\* wrong length), bitmask dicts, tuple dicts (one and two items, one with a
\* repeated index).
InitData(space) ==
    { ScalarData(c) : c \in UnitCoeffs }
    \cup { VectorData(v) : v \in [1..space.dims -> {0, 1}] }
    \cup { VectorData([i \in 1..(space.dims + 1) |-> 1]) }
    \cup { BitsData(EmptyDict) }
    \cup { BitsData([b \in {bits} |-> c]) : bits \in Blades(space), c \in {0, 1} }
    \cup { TupleData(<<[t |-> t, c |-> 1]>>) : t \in Tuples(space.dims) }
    \cup { TupleData(<<[t |-> <<1>>, c |-> 0]>>) }
    \cup { TupleData(<<[t |-> <<0, 1>>, c |-> 1], [t |-> <<1, 0>>, c |-> c2]>>) :
             c2 \in {-1, 1} }
    \cup { TupleData(<<[t |-> <<0, 0>>, c |-> 1]>>) }

\* The right operands of the binary operators: the bare scalars 0 and 1, the
\* held multivector itself, of its Space the empty multivector, a stored zero
\* and the basis blades, and of the other Space the basis vector e0.
BladeMVs(s) ==
    { MV(s, EmptyDict), MV(s, [b \in {0} |-> 0]) }
    \cup { MV(s, [b \in {bits} |-> 1]) : bits \in Blades(spaces[s]) }

Operands ==
    { ScalarOperand(c) : c \in {0, 1} }
    \cup { MVOperand(acc) }
    \cup { MVOperand(mv) : mv \in BladeMVs(acc.space) }
    \cup { MVOperand(MV(s, [b \in {1} |-> 1])) : s \in SpaceIds \ {acc.space} }

RECURSIVE SumAbs(_, _)
SumAbs(d, keys) ==
    IF keys = {} THEN 0
    ELSE LET k == CHOOSE x \in keys : TRUE
         IN  Abs(d[k]) + SumAbs(d, keys \ {k})

DataWeight(d) == SumAbs(d, DOMAIN d)

\* The weight a held multivector may have: MaxWeight, and MaxWeight3 in
\* three dimensions, where there are twice as many blades.
WeightBound(s) == IF spaces[s].dims >= 3 THEN MaxWeight3 ELSE MaxWeight

ArgKind(other) ==
    IF ~other.isMV THEN "scalar" ELSE IF other.mv = acc THEN "self" ELSE "mv"

Last(op, status, value, truth, arg, argc, cross) ==
    [op |-> op, status |-> status, value |-> value, truth |-> truth,
     arg |-> arg, argc |-> argc, cross |-> cross]

NoLast == Last("none", "ok", 0, FALSE, "none", 0, FALSE)

\* A call that returns a MultiVector, which the session then holds.
ReturnsMV(op, r, cross) ==
    /\ r.status = "ok" => DataWeight(r.mv.data) <= WeightBound(r.mv.space)
    /\ acc' = IF r.status = "ok" THEN r.mv ELSE acc
    /\ last' = Last(op, r.status, 0, FALSE, "none", 0, cross)
    /\ UNCHANGED <<spaces, cache, pc, ret, tin, tout>>

\* A call that returns a scalar or a boolean.
ReturnsValue(op, status, value, truth, arg, argc, cross) ==
    /\ acc' = acc
    /\ last' = Last(op, status, value, truth, arg, argc, cross)
    /\ UNCHANGED <<spaces, cache, pc, ret, tin, tout>>

Cross(other) == other.isMV /\ other.mv.space # acc.space

\* MultiVector(data, space), on the first Space.
Construct ==
    \E data \in InitData(spaces[1]) :
        ReturnsMV("init", MVInit(data, 1, spaces), FALSE)

Negate == acc # NoMV /\ ReturnsMV("neg", Ok(Neg(acc)), FALSE)

Reverse == acc # NoMV /\ ReturnsMV("rev", Ok(rev(acc)), FALSE)

Involute == acc # NoMV /\ ReturnsMV("invol", Ok(invol(acc)), FALSE)

ProjectGrade ==
    /\ acc # NoMV
    /\ \E grade \in 0..spaces[acc.space].dims :
           ReturnsMV("project", Ok(project(acc, grade)), FALSE)

ReadI == acc # NoMV /\ ReturnsMV("I", Ok(PseudoScalar(acc, spaces)), FALSE)

AddOp ==
    /\ acc # NoMV
    /\ \E other \in Operands :
           ReturnsMV("add", Add(acc, other, spaces), Cross(other))

SubOp ==
    /\ acc # NoMV
    /\ \E other \in Operands :
           ReturnsMV("sub", Sub(acc, other, spaces), Cross(other))

MulOp ==
    /\ acc # NoMV
    /\ \E other \in Operands :
           ReturnsMV("mul", Product(acc, other, "geometric", spaces), Cross(other))

XorOp ==
    /\ acc # NoMV
    /\ \E other \in Operands :
           ReturnsMV("xor", Product(acc, other, "outer", spaces), Cross(other))

OrOp ==
    /\ acc # NoMV
    /\ \E other \in Operands :
           ReturnsMV("or", Product(acc, other, "inner", spaces), Cross(other))

LshiftOp ==
    /\ acc # NoMV
    /\ \E other \in Operands :
           ReturnsMV("lshift", Product(acc, other, "lcontract", spaces), Cross(other))

RshiftOp ==
    /\ acc # NoMV
    /\ \E other \in Operands :
           ReturnsMV("rshift", Product(acc, other, "rcontract", spaces), Cross(other))

ScalarProductOp ==
    /\ acc # NoMV
    /\ \E other \in Operands :
           LET r == scalar_product(acc, other, spaces)
           IN  ReturnsValue("scalar_product", r.status, r.value, FALSE,
                            IF ArgKind(other) = "self" THEN "self" ELSE "none",
                            0, Cross(other))

NormSquaredOp ==
    /\ acc # NoMV
    /\ LET r == norm_squared(acc, spaces)
       IN  ReturnsValue("norm_squared", r.status, r.value, FALSE, "none", 0, FALSE)

EqOp ==
    /\ acc # NoMV
    /\ \E other \in Operands :
           ReturnsValue("eq", "ok", 0, Eq(acc, other, spaces),
                        ArgKind(other), other.c, Cross(other))

CloseToOp ==
    /\ acc # NoMV
    /\ \E other \in Operands :
           LET r == close_to(acc, other, spaces)
           IN  ReturnsValue("close_to", r.status, 0, r.truth, "none", 0, Cross(other))

ReadIsOrthogonal ==
    \E s \in SpaceIds :
        ReturnsValue("is_orthogonal", "ok", s, is_orthogonal(spaces[s]), "none", 0, FALSE)

ReadIsEuclidean ==
    \E s \in SpaceIds :
        LET r == is_euclidean(spaces[s])
        IN  ReturnsValue("is_euclidean", r.status, s, r.value, "none", 0, FALSE)

NoThreads == [t \in {} |-> 0]

\* The Spaces among them of so many dimensions.
SpacesOfDim(dims) == { a \in BuiltSpaces : a.dims = dims }

\* A session's start: two Space instances made with the same arguments, one
\* of `built`, and nothing else yet.
SessionStart(built) ==
    /\ spaces \in { <<a, a>> : a \in built }
    /\ acc = NoMV
    /\ last = NoLast
    /\ cache = EmptyDict
    /\ pc = NoThreads
    /\ ret = NoThreads
    /\ tin = << >>
    /\ tout = << >>

\* Sessions on the 2-dimensional Spaces: Euclidean, diagonal, non-diagonal.
Init == SessionStart(SpacesOfDim(2))

\* Sessions on the 3-dimensional Euclidean Space.
Init3 == SessionStart(SpacesOfDim(3))

Next ==
    \/ Construct
    \/ Negate
    \/ Reverse
    \/ Involute
    \/ ProjectGrade
    \/ ReadI
    \/ AddOp
    \/ SubOp
    \/ MulOp
    \/ XorOp
    \/ OrOp
    \/ LshiftOp
    \/ RshiftOp
    \/ ScalarProductOp
    \/ NormSquaredOp
    \/ EqOp
    \/ CloseToOp
    \/ ReadIsOrthogonal
    \/ ReadIsEuclidean

Spec == Init /\ [][Next]_vars

Spec3 == Init3 /\ [][Next]_vars

----------------------------------------------------------------------------
(* bits_and_sign runs: one tuple of basis indices, fed to bits_and_sign    *)
(* and to MultiVector({t: c}, space).                                      *)

NoRun == [stage |-> "start",
          bs |-> [status |-> "ok", bits |-> 0, sign |-> 0],
          mv |-> Fail("none"), sorted_mv |-> Fail("none")]

\* sorted(t) for a tuple of distinct indices.
SortedTuple(t) == SortedSeq({t[k] : k \in 1..Len(t)})

CallBitsAndSign ==
    /\ tout.stage = "start"
    /\ tout' = [tout EXCEPT !.stage = "signed", !.bs = bits_and_sign(tin.t)]
    /\ UNCHANGED <<spaces, acc, last, cache, pc, ret, tin>>

\* MultiVector({t: c}, space)
BuildFromTuple ==
    /\ tout.stage = "signed"
    /\ tout' = [tout EXCEPT
                   !.stage = "built",
                   !.mv = MVInit(TupleData(<<[t |-> tin.t, c |-> tin.c]>>), 1, spaces)]
    /\ UNCHANGED <<spaces, acc, last, cache, pc, ret, tin>>

\* MultiVector({sorted(t): sign * c}, space)
BuildFromSorted ==
    /\ tout.stage = "built"
    /\ tout.bs.status = "ok"
    /\ tout' = [tout EXCEPT
                   !.stage = "both",
                   !.sorted_mv =
                       MVInit(TupleData(<<[t |-> SortedTuple(tin.t),
                                           c |-> tout.bs.sign * tin.c]>>),
                              1, spaces)]
    /\ UNCHANGED <<spaces, acc, last, cache, pc, ret, tin>>

\* A default Euclidean Space of 1 to MaxTupleDim dimensions, a tuple of its
\* basis indices (or the tuple (0, 0), which repeats one) and a coefficient.
InitSign ==
    /\ \E dims \in 1..MaxTupleDim :
           /\ spaces = <<SpaceInit(Basis(dims), NoMetric).space>>
           /\ tin \in [t : Tuples(dims) \cup {<<0, 0>>}, c : UnitCoeffs]
    /\ tout = NoRun
    /\ acc = NoMV
    /\ last = NoLast
    /\ cache = EmptyDict
    /\ pc = NoThreads
    /\ ret = NoThreads

NextSign ==
    \/ CallBitsAndSign
    \/ BuildFromTuple
    \/ BuildFromSorted

SpecSign == InitSign /\ [][NextSign]_vars

----------------------------------------------------------------------------
(* canonical_reordering_sign runs, statement by statement: tin holds the    *)
(* two arguments, tout the locals a_bits and s, the number of passes       *)
(* through the loop and the value returned.                                *)

\* One pass through the loop body, counting the bits of a_bits | b_bits.
crs_body_counts_union(a_bits, b_bits, s) ==
    [a_bits |-> a_bits \div 2, s |-> s + bit_count(BitOr(a_bits, b_bits))]

\* One pass through the loop body: s = s + bit_count(a_bits & b_bits), then
\* a_bits = a_bits >> 1.
crs_body(a_bits, b_bits, s) ==
    [a_bits |-> a_bits \div 2, s |-> s + bit_count(BitAnd(a_bits, b_bits))]

\* a_bits = a_bits >> 1; s = 0
CrsEnter ==
    /\ tout.stage = "start"
    /\ tout' = [tout EXCEPT !.stage = "loop", !.a_bits = tin.a_bits \div 2, !.s = 0]
    /\ UNCHANGED <<spaces, acc, last, cache, pc, ret, tin>>

\* while a_bits: the loop body
CrsIterate ==
    /\ tout.stage = "loop"
    /\ tout.a_bits # 0
    /\ LET b == crs_body(tout.a_bits, tin.b_bits, tout.s)
       IN  tout' = [tout EXCEPT !.a_bits = b.a_bits, !.s = b.s,
                                !.passes = tout.passes + 1]
    /\ UNCHANGED <<spaces, acc, last, cache, pc, ret, tin>>

\* the loop is left: return -1 if s & 1, else 1
CrsReturn ==
    /\ tout.stage = "loop"
    /\ tout.a_bits = 0
    /\ tout' = [tout EXCEPT !.stage = "done",
                            !.sign = IF BitAnd(tout.s, 1) # 0 THEN -1 ELSE 1]
    /\ UNCHANGED <<spaces, acc, last, cache, pc, ret, tin>>

\* Two blade bitmasks over MaxCrsDim basis vectors, the call not yet begun.
InitCrs ==
    /\ tin \in [a_bits : 0..(Pow2(MaxCrsDim) - 1), b_bits : 0..(Pow2(MaxCrsDim) - 1)]
    /\ tout = [stage |-> "start", a_bits |-> 0, s |-> 0, passes |-> 0, sign |-> 0]
    /\ spaces = << >>
    /\ acc = NoMV
    /\ last = NoLast
    /\ cache = EmptyDict
    /\ pc = NoThreads
    /\ ret = NoThreads

NextCrs ==
    \/ CrsEnter
    \/ CrsIterate
    \/ CrsReturn

\* The call runs on one thread, which keeps executing its next statement.
SpecCrs == InitCrs /\ [][NextCrs]_vars /\ WF_vars(NextCrs)

----------------------------------------------------------------------------
(* get_euclidean_space under threads: each thread constructs a MultiVector *)
(* from a dense vector without a Space.  The memoize wrapper looks the     *)
(* dimension count up, calls Space(n) on a miss and stores the result, and *)
(* nothing holds a lock from the lookup to the store.                      *)

Threads == 1..NumThreads

CacheDims == {2, 3}

Idle == [at |-> "idle", n |-> 0]

NoRet == [space |-> 0, mv |-> NoMV]

\* The first basis vector as a dense vector of n entries.
UnitVector(n) == [i \in 1..n |-> IF i = 1 THEN 1 ELSE 0]

\* The rest of MultiVector.__init__ once the Space is known.
FinishInit(t, n, space, spcs) ==
    /\ ret' = [ret EXCEPT ![t] = [space |-> space,
                                  mv |-> MVInit(VectorData(UnitVector(n)), space, spcs).mv]]
    /\ pc' = [pc EXCEPT ![t] = [at |-> "done", n |-> n]]

\* The wrapper's lookup: a hit returns the cached Space.
Lookup(t) ==
    /\ pc[t].at = "idle"
    /\ \E n \in CacheDims :
           IF n \in DOMAIN cache
           THEN /\ FinishInit(t, n, cache[n], spaces)
                /\ UNCHANGED <<spaces, cache>>
           ELSE /\ pc' = [pc EXCEPT ![t] = [at |-> "miss", n |-> n]]
                /\ UNCHANGED <<spaces, cache, ret>>
    /\ UNCHANGED <<acc, last, tin, tout>>

\* On a miss, the call of get_euclidean_space itself: Space(n).
Compute(t) ==
    /\ pc[t].at = "miss"
    /\ spaces' = Append(spaces, SpaceInit(Basis(pc[t].n), NoMetric).space)
    /\ ret' = [ret EXCEPT ![t] = [space |-> Len(spaces) + 1, mv |-> NoMV]]
    /\ pc' = [pc EXCEPT ![t].at = "computed"]
    /\ UNCHANGED <<acc, last, cache, tin, tout>>

\* The wrapper stores what it computed and returns it.
Store(t) ==
    /\ pc[t].at = "computed"
    /\ cache' = DictSet(cache, pc[t].n, ret[t].space)
    /\ FinishInit(t, pc[t].n, ret[t].space, spaces)
    /\ UNCHANGED <<spaces, acc, last, tin, tout>>

InitCache ==
    /\ spaces = << >>
    /\ cache = EmptyDict
    /\ pc = [t \in Threads |-> Idle]
    /\ ret = [t \in Threads |-> NoRet]
    /\ acc = NoMV
    /\ last = NoLast
    /\ tin = << >>
    /\ tout = << >>

NextCache == \E t \in Threads : Lookup(t) \/ Compute(t) \/ Store(t)

SpecCache == InitCache /\ [][NextCache]_vars

----------------------------------------------------------------------------
(* Properties.                                                             *)

Orthogonal(mv) == is_orthogonal(spaces[mv.space])

Grades(mv) == {bit_count(bits) : bits \in DOMAIN mv.data}

SelfScalarProduct(mv) == scalar_product(mv, MVOperand(mv), spaces)

\* C1, as claimed: on an orthogonal Space, what A.norm_squared() returns is
\* what A.scalar_product(A) returns.
C1_NormSquaredIsSelfScalarProduct ==
    (last.op = "norm_squared" /\ last.status = "ok" /\ Orthogonal(acc))
        => last.value = SelfScalarProduct(acc).value

\* C1, amended: on an orthogonal Space A.norm_squared() equals
\* A.scalar_product(A) when every blade of A has grade 0 or 1 modulo 4, and
\* equals -A.scalar_product(A) when every blade has grade 2 or 3 modulo 4.
C1_NormSquaredByGrade ==
    (last.op = "norm_squared" /\ Orthogonal(acc))
        => /\ last.status = "ok"
           /\ SelfScalarProduct(acc).status = "ok"
           /\ (\A g \in Grades(acc) : g % 4 \in {0, 1})
                  => last.value = SelfScalarProduct(acc).value
           /\ (\A g \in Grades(acc) : g % 4 \in {2, 3})
                  => last.value = -SelfScalarProduct(acc).value

\* A norm_squared call on a multivector mixing a scalar and a vector term.
C1_Witness ==
    /\ last.op = "norm_squared"
    /\ last.status = "ok"
    /\ Orthogonal(acc)
    /\ Grades(acc) = {0, 1}
    /\ last.value # 0

\* C2, as claimed: no MultiVector stores a coefficient that is zero.
C2_NoZeroCoefficientStored ==
    \A bits \in DOMAIN acc.data : acc.data[bits] # 0

Euclid3 == SpaceInit(Basis(3), NoMetric).space

\* The basis vector e_i of the first Space, built from a dense vector.
BasisVector(i) ==
    MVInit(VectorData([k \in 1..spaces[1].dims |-> IF k = i + 1 THEN 1 ELSE 0]),
           1, spaces).mv

Geometric(a, b) == Product(a, MVOperand(b), "geometric", spaces).mv
Outer(a, b) == Product(a, MVOperand(b), "outer", spaces).mv
Inner(a, b) == Product(a, MVOperand(b), "inner", spaces).mv

\* C3, as claimed: in 3-dimensional Euclidean space (e0 ^ e0) == 0 and
\* (e0 | e1) == 0 evaluate to true.
C3_ZeroComparisonsAreTrue ==
    ( /\ spaces[1] = Euclid3
      /\ last.op = "eq" /\ last.arg = "scalar" /\ last.argc = 0
      /\ acc \in {Outer(BasisVector(0), BasisVector(0)),
                  Inner(BasisVector(0), BasisVector(1))} )
        => last.truth

\* C4: in 3-dimensional Euclidean space ei * ei == 1, ej * ei == -(ei * ej)
\* for i # j, e0 * e1 == e0 ^ e1, e1 * e0 == -(e0 ^ e1),
\* (e0 ^ e1) * (e0 ^ e1) == -1, and the pseudoscalar I equals e0 ^ e1 ^ e2.
C4_EuclideanProducts ==
    spaces[1] = Euclid3 =>
        LET e(i) == BasisVector(i)
            e01 == Outer(e(0), e(1))
            e012 == Outer(e01, e(2))
        IN  /\ \A i \in 0..2 : Eq(Geometric(e(i), e(i)), ScalarOperand(1), spaces)
            /\ \A i \in 0..2 : \A j \in 0..2 :
                   i # j => Eq(Geometric(e(j), e(i)),
                               MVOperand(Neg(Geometric(e(i), e(j)))), spaces)
            /\ Eq(Geometric(e(0), e(1)), MVOperand(e01), spaces)
            /\ Eq(Geometric(e(1), e(0)), MVOperand(Neg(e01)), spaces)
            /\ Eq(Geometric(e01, e01), ScalarOperand(-1), spaces)
            /\ Eq(PseudoScalar(e(0), spaces), MVOperand(e012), spaces)
            /\ (last.op = "I" => acc = e012)

\* The session holds e1 * e0 = -(e0 ^ e1), the result of a geometric product.
C4_Witness ==
    /\ spaces[1] = Euclid3
    /\ last.op = "mul"
    /\ last.status = "ok"
    /\ acc = Neg(Outer(BasisVector(0), BasisVector(1)))

\* C5, as claimed: every binary operation on operands of two distinct Space
\* instances fails with ValueError, == included.
C5_EveryCrossSpaceCallFails ==
    last.cross => last.status = "ValueError"

\* C5, amended: +, -, the six products and close_to on operands of two
\* distinct Space instances fail with ValueError; == does not fail and
\* returns whether the two data dicts are equal.
C5_CrossSpaceCalls ==
    /\ (last.cross /\ last.op # "eq") => last.status = "ValueError"
    /\ (last.cross /\ last.op = "eq") => last.status = "ok"
    /\ acc # NoMV =>
           \A s \in SpaceIds \ {acc.space} : \A mv \in BladeMVs(s) :
               LET other == MVOperand(mv)
               IN  /\ Add(acc, other, spaces).status = "ValueError"
                   /\ Sub(acc, other, spaces).status = "ValueError"
                   /\ \A product_class \in ProductClasses :
                          Product(acc, other, product_class, spaces).status
                              = "ValueError"
                   /\ scalar_product(acc, other, spaces).status = "ValueError"
                   /\ close_to(acc, other, spaces).status = "ValueError"
                   /\ Eq(acc, other, spaces) = (acc.data = mv.data)

\* A geometric product across the two Space instances was refused.
C5_Witness ==
    /\ last.cross
    /\ last.op = "mul"
    /\ last.status = "ValueError"
    /\ spaces[1] = spaces[2]

NonOuterOps == {"mul", "or", "lshift", "rshift", "scalar_product"}

\* C6, as claimed: on a Space with a non-diagonal metric every geometric,
\* inner, contraction and scalar product of two of its multivectors raises
\* NotImplementedError, and every outer product succeeds.
C6_EveryNonOuterProductRaises ==
    (acc # NoMV /\ ~last.cross /\ ~Orthogonal(acc))
        => /\ last.op \in NonOuterOps => last.status = "NotImplementedError"
           /\ last.op = "xor" => last.status = "ok"

\* C6, amended: on a Space with a non-diagonal metric those products raise
\* NotImplementedError exactly when both operands store at least one term;
\* with an operand whose data is empty they return the empty multivector
\* (scalar_product: 0).  The outer product always succeeds.
C6_NonDiagonalProducts ==
    (acc # NoMV /\ ~Orthogonal(acc))
        => /\ (~last.cross /\ last.op = "xor") => last.status = "ok"
           /\ (~last.cross /\ last.op \in NonOuterOps)
                  => \/ last.status = "NotImplementedError"
                     \/ /\ last.status = "ok"
                        /\ last.value = 0
                        /\ last.op # "scalar_product" => acc.data = EmptyDict
           /\ \A mv \in BladeMVs(acc.space) \cup {acc} :
                  \A product_class \in ProductClasses :
                      Product(acc, MVOperand(mv), product_class, spaces).status
                          = IF \/ product_class = "outer"
                               \/ acc.data = EmptyDict
                               \/ mv.data = EmptyDict
                            THEN "ok" ELSE "NotImplementedError"
           /\ \A c \in UnitCoeffs :
                  scalar_product(acc, ScalarOperand(c), spaces)
                      = IF acc.data = EmptyDict THEN Value(0)
                        ELSE Raise("NotImplementedError")

\* A geometric product on the non-diagonal Space raised, the held
\* multivector storing a term.
C6_Witness ==
    /\ acc # NoMV
    /\ ~Orthogonal(acc)
    /\ ~last.cross
    /\ last.op = "mul"
    /\ last.status = "NotImplementedError"
    /\ acc.data # EmptyDict

Distinct(t) == Cardinality({t[k] : k \in 1..Len(t)}) = Len(t)

\* The number of pairs of positions of t that are out of order.
Inversions(t) ==
    Cardinality({p \in (1..Len(t)) \X (1..Len(t)) : p[1] < p[2] /\ t[p[1]] > t[p[2]]})

ParitySign(t) == IF Inversions(t) % 2 = 0 THEN 1 ELSE -1

HasBit(bits, k) == (bits \div Pow2(k)) % 2 = 1

\* C7: for a tuple t of distinct basis indices bits_and_sign(t) returns the
\* bitmask with exactly the bits of t set and the parity of the permutation
\* that sorts t, and MultiVector({t: c}) equals
\* MultiVector({sorted(t): sign * c}).
C7_BitsAndSign ==
    /\ (tout.stage # "start" /\ Distinct(tin.t))
           => /\ tout.bs.status = "ok"
              /\ tout.bs.sign = ParitySign(tin.t)
              /\ tout.bs.bits < Pow2(spaces[1].dims)
              /\ \A k \in 0..(spaces[1].dims - 1) :
                     HasBit(tout.bs.bits, k) <=> (\E i \in 1..Len(tin.t) : tin.t[i] = k)
    /\ tout.stage = "both"
           => /\ tout.mv.status = "ok"
              /\ tout.mv = tout.sorted_mv

\* Tuple (1, 0) with coefficient 1 in 2D Euclidean space came out as the
\* blade (0, 1) with coefficient -1, both ways.
C7_Witness ==
    /\ tout.stage = "both"
    /\ spaces[1].dims = 2
    /\ tin = [t |-> <<1, 0>>, c |-> 1]
    /\ tout.bs = [status |-> "ok", bits |-> 3, sign |-> -1]
    /\ tout.sorted_mv.mv.data = [b \in {3} |-> -1]

\* C8, as claimed: all callers that asked for the same dimension count hold
\* the same Space instance, so their multivectors add and multiply.
C8_OneSharedInstance ==
    \A t1 \in Threads : \A t2 \in Threads :
        (pc[t1].at = "done" /\ pc[t2].at = "done" /\ pc[t1].n = pc[t2].n)
            => /\ ret[t1].space = ret[t2].space
               /\ AddMV(ret[t1].mv, ret[t2].mv).status = "ok"
               /\ generic_product(ret[t1].mv, ret[t2].mv, "geometric", spaces).status
                      = "ok"

\* The multivectors the addition laws are tried with, next to the held one:
\* the blades of its Space and its own negation.
Addends == BladeMVs(acc.space) \cup {Neg(acc)}

\* C9: A + B == B + A, (A + B) + C == A + (B + C), and A + (-A) has empty data.
C9_AdditionLaws ==
    acc # NoMV =>
        /\ \A b \in Addends :
               /\ AddMV(acc, b) = AddMV(b, acc)
               /\ AddMV(acc, b).status = "ok"
               /\ \A c \in Addends :
                      AddMV(AddMV(acc, b).mv, c) = AddMV(acc, AddMV(b, c).mv)
        /\ AddMV(acc, Neg(acc)).mv.data = EmptyDict
        /\ (last.op \in {"add", "sub"} /\ last.status = "ok")
               => \A bits \in DOMAIN acc.data : acc.data[bits] # 0

\* An addition whose terms all cancelled.
C9_Witness ==
    /\ last.op = "add"
    /\ last.status = "ok"
    /\ last.cross = FALSE
    /\ acc # NoMV
    /\ acc.data = EmptyDict

\* C10, as claimed: reading is_euclidean never fails and yields whether the
\* metric matrix is the identity.
C10_IsEuclideanReads ==
    last.op = "is_euclidean"
        => /\ last.status = "ok"
           /\ last.truth = (spaces[last.value].metric = Eye(spaces[last.value].dims))

\* The number of pairs (i, j) with bit i set in a_bits, bit j set in b_bits
\* and i > j.
SwapPairs(a_bits, b_bits) ==
    Cardinality({p \in (0..(MaxCrsDim - 1)) \X (0..(MaxCrsDim - 1)) :
                    HasBit(a_bits, p[1]) /\ HasBit(b_bits, p[2]) /\ p[1] > p[2]})

\* The position of the highest set bit of x, plus one (0 for x = 0).
RECURSIVE BitLength(_)
BitLength(x) == IF x = 0 THEN 0 ELSE 1 + BitLength(x \div 2)

\* What holds at every statement of a canonical_reordering_sign run: the
\* loop has made no more passes than a_bits has bits, and the value
\* returned is -1 exactly when the number of swap pairs is odd, the value
\* the products get from canonical_reordering_sign.
CrsRunInv ==
    /\ tout.passes <= BitLength(tin.a_bits)
    /\ tout.stage = "loop" => tout.a_bits = tin.a_bits \div Pow2(tout.passes + 1)
    /\ tout.stage = "done"
           => /\ tout.sign = (IF SwapPairs(tin.a_bits, tin.b_bits) % 2 = 1 THEN -1 ELSE 1)
              /\ tout.sign = canonical_reordering_sign(tin.a_bits, tin.b_bits)

\* C11: for all blade bitmasks a_bits, b_bits in [0, 2^n),
\* canonical_reordering_sign(a_bits, b_bits) returns -1 exactly when the
\* number of pairs (i, j) with bit i set in a_bits, bit j set in b_bits and
\* i > j is odd, and +1 otherwise, and its loop terminates.
C11_ReorderingSign == []CrsRunInv /\ <>(tout.stage = "done")

\* The run on a = e1^e2 (6) and b = e0^e1 (3) has returned: three swap
\* pairs, sign -1, after two passes through the loop.
C11_Witness ==
    /\ tout.stage = "done"
    /\ tin = [a_bits |-> 6, b_bits |-> 3]
    /\ tout.passes = 2
    /\ tout.sign = -1

\* The right operands of the held multivector's own Space, and bare scalars.
OwnOperands ==
    {MVOperand(mv) : mv \in BladeMVs(acc.space) \cup {acc, rev(acc)}}
    \cup {ScalarOperand(c) : c \in UnitCoeffs}

\* C12: on an orthogonal Space scalar_product(A, B) never raises for two
\* multivectors of that Space: the generic product with the scalar-product
\* weight writes blade bitmask 0 only, so its result has empty data or the
\* single key 0, and as_scalar's not-a-scalar failure is reached neither
\* from scalar_product nor from norm_squared.
C12_ScalarProductIsScalar ==
    (acc # NoMV /\ Orthogonal(acc))
        => /\ (last.op = "scalar_product" /\ ~last.cross) => last.status = "ok"
           /\ last.op = "norm_squared" => last.status = "ok"
           /\ \A other \in OwnOperands :
                  /\ scalar_product(acc, other, spaces).status = "ok"
                  /\ Product(acc, other, "scalar", spaces).status = "ok"
                  /\ DOMAIN Product(acc, other, "scalar", spaces).mv.data \subseteq {0}
           /\ norm_squared(acc, spaces).status = "ok"

\* A.scalar_product(A) returned a nonzero scalar for a multivector A that
\* stores blades of two different grades.
C12_Witness ==
    /\ acc # NoMV
    /\ Orthogonal(acc)
    /\ last.op = "scalar_product"
    /\ last.arg = "self"
    /\ last.status = "ok"
    /\ last.value # 0
    /\ Cardinality(Grades(acc)) = 2

====
